---- MODULE Spec2Model ----
(***************************************************************************)
(* The event-impact analytics of src/event_impact: the windowing and the   *)
(* metrics of metrics.py, the event model of events.py, the price fetch of *)
(* data.py and the batch run of cli.py.                                    *)
(*                                                                         *)
(* Time is counted in hours from a model epoch that lies in Eastern        *)
(* standard time.  A float is a record: an exact rational [k |-> "num"],   *)
(* NaN, an infinity, or a symbolic root for a standard deviation.  A       *)
(* polars null (Python None inside a Series) is Null.                      *)
(***************************************************************************)
EXTENDS Integers, Sequences, FiniteSets, TLC

VARIABLES
    pc,             \* position of the program the specification runs
    df,             \* analyze_event: the price series, a sequence of bars
    event,          \* analyze_event: the Event
    window,         \* analyze_event / main: the EventWindowConfig
    pre_df,         \* analyze_event: local pre_df
    post_df,        \* analyze_event: local post_df
    impact,         \* analyze_event: what the call produced
    ref_price,      \* _max_drawdown_from: argument
    prices,         \* _max_drawdown_from: argument
    max_dd,         \* _max_drawdown_from: returned value
    STATIC_EVENTS,  \* events.py: the built-in calendar, year -> list of Event
    args,           \* main: the parsed command line
    price_source,   \* the price source: ticker -> outcome of each candidate period
    events,         \* main: the list `events`
    aliased,        \* main: `events` is the very list stored in STATIC_EVENTS
    price_map,      \* main: what fetch_assets returned
    impacts,        \* main: the list `impacts`
    results,        \* main: the table summarize_impacts returned
    output,         \* main: what the run printed
    shuffled,       \* dedupe_events: a permutation of `events`
    kept,           \* dedupe_events(events)
    kept_shuffled,  \* dedupe_events(shuffled)
    kept_twice      \* dedupe_events(dedupe_events(events))

----------------------------------------------------------------------------
(* Bounds of the model *)

\* bars carry the timestamps 0..MaxT
MaxT == 3
\* window.pre ranges over -1..MaxPre hours
MaxPre == 2
\* window.post ranges over -1..MaxPost hours
MaxPost == 2
\* _max_drawdown_from is applied to series of at most MaxLen closes
MaxLen == 4
\* dedupe_events is applied to lists of at most MaxEvents events
MaxEvents == 3

----------------------------------------------------------------------------
(* Floats *)

Null == [k |-> "null"]
None == [k |-> "none"]
NaN == [k |-> "nan"]
NegInf == [k |-> "-inf"]
PosInf == [k |-> "+inf"]

Abs(x) == IF x < 0 THEN -x ELSE x

RECURSIVE Gcd(_, _)
Gcd(a, b) == IF b = 0 THEN a ELSE Gcd(b, a % b)

\* the float n/d (d # 0), in lowest terms with a positive denominator
Rat(n, d) ==
    LET g == Gcd(Abs(n), Abs(d))
        s == IF d < 0 THEN -1 ELSE 1
    IN  [k |-> "num", n |-> (s * n) \div g, d |-> (s * d) \div g]

F(n) == Rat(n, 1)

IsNum(x) == x.k = "num"

\* a / b for numbers, b # 0
FDiv(a, b) == Rat(a.n * b.d, a.d * b.n)

\* a - b for numbers
FSub(a, b) == Rat(a.n * b.d - b.n * a.d, a.d * b.d)

\* a < b for numbers
FLt(a, b) == a.n * b.d < b.n * a.d

FAbs(a) == Rat(Abs(a.n), a.d)

\* truthiness of a Python float: `if x`
Truthy(x) == ~(IsNum(x) /\ x.n = 0)

----------------------------------------------------------------------------
(* events.py: Event, EventWindowConfig *)

\* UTC offset of America/New_York at the model epoch (standard time), hours
NycUtcOffsetHours == 5

\* Event.utc_timestamp: a naive timestamp is taken as New York wall time
utc_timestamp(ev) ==
    IF ev.timestamp.tz = "naive"
    THEN ev.timestamp.wall + NycUtcOffsetHours
    ELSE IF ev.timestamp.tz = "nyc"
         THEN ev.timestamp.wall + NycUtcOffsetHours
         ELSE ev.timestamp.wall

Event(name, category, timestamp, tickers, source) ==
    [name |-> name, category |-> category, timestamp |-> timestamp,
     tickers |-> tickers, source |-> source]

EventWindowConfig(pre, post) == [pre |-> pre, post |-> post]

\* str.lower on the category labels in use
Lower(c) ==
    CASE c = "CPI" -> "cpi"
      [] c = "FOMC" -> "fomc"
      [] OTHER -> c

\* STATIC_EVENTS at import: the built-in calendar, cut down to a few events a
\* year; every entry is New-York-aware and comes without metadata
StaticCalendar ==
    (2024 :> << Event("US CPI 2024", "cpi", [wall |-> -4, tz |-> "nyc"], <<>>, "static"),
                Event("FOMC 2024", "fomc", [wall |-> -3, tz |-> "nyc"], <<>>, "static") >>)
    @@
    (2025 :> << Event("US CPI 2025", "cpi", [wall |-> -4, tz |-> "nyc"], <<>>, "static"),
                Event("FOMC 2025", "fomc", [wall |-> -3, tz |-> "nyc"], <<>>, "static"),
                Event("AAPL FY25 Q1", "earnings", [wall |-> -3, tz |-> "nyc"],
                      <<"AAPL">>, "static") >>)

RECURSIVE FilterCategory(_, _)
\* [ev for ev in events if ev.category.lower() in cat_set]
FilterCategory(evs, cat_set) ==
    IF evs = <<>> THEN <<>>
    ELSE IF Lower(Head(evs).category) \in cat_set
         THEN <<Head(evs)>> \o FilterCategory(Tail(evs), cat_set)
         ELSE FilterCategory(Tail(evs), cat_set)

\* sample_events: [list |-> the events, alias |-> the list returned is the one
\* STATIC_EVENTS holds]. An empty `categories` is falsy, so cat_set is None.
sample_events(static, categories, year) ==
    LET evs == IF year \in DOMAIN static THEN static[year] ELSE <<>>
    IN  IF Len(categories) = 0
        THEN [list |-> evs, alias |-> year \in DOMAIN static]
        ELSE [list |-> FilterCategory(evs, {Lower(categories[i]) : i \in 1..Len(categories)}),
              alias |-> FALSE]

RECURSIVE LoadRows(_)
\* the row loop of load_events_from_json / load_events_from_csv: a row whose
\* timestamp does not parse or whose name is missing raises out of the loader
LoadRows(rows) ==
    IF rows = <<>> THEN [exc |-> "none", value |-> <<>>]
    ELSE IF ~Head(rows).ok THEN [exc |-> "ValueError"]
    ELSE LET rest == LoadRows(Tail(rows))
         IN  IF rest.exc # "none" THEN rest
             ELSE [exc |-> "none", value |-> <<Head(rows).event>> \o rest.value]

load_events_from_json(rows) == LoadRows(rows)

load_events_from_csv(rows) == LoadRows(rows)

----------------------------------------------------------------------------
(* dedupe_events, which cli.py imports from events.py and calls; events.py  *)
(* does not hold it.  Taken from the design of event deduplication: group   *)
(* by lower-cased category and UTC calendar day, keep one representative    *)
(* per group (the first encountered from the preferred source, else the     *)
(* first encountered), union the tickers of the group into it, and order    *)
(* the output by ascending UTC instant, stably.                             *)

HoursPerDay == 24

UtcDate(t) == t \div HoursPerDay

DedupeKey(ev) == <<Lower(ev.category), UtcDate(utc_timestamp(ev))>>

\* no source is preferred: the first encountered member is kept
IsPreferred_never(ev, prefer_fred) == FALSE

IsPreferred(ev, prefer_fred) == prefer_fred /\ ev.source = "fred"

\* the tickers appended without looking for the ones already there
UnionTickers_concat(acc, ts) == acc \o ts

RECURSIVE UnionTickers(_, _)
\* acc followed by the tickers of ts that acc does not hold yet
UnionTickers(acc, ts) ==
    IF ts = <<>> THEN acc
    ELSE IF \E i \in 1..Len(acc) : acc[i] = Head(ts)
         THEN UnionTickers(acc, Tail(ts))
         ELSE UnionTickers(Append(acc, Head(ts)), Tail(ts))

RECURSIVE GroupTickers(_, _)
\* the tickers of the members, in the order encountered, added to acc
GroupTickers(acc, members) ==
    IF members = <<>> THEN acc
    ELSE GroupTickers(UnionTickers(acc, Head(members).tickers), Tail(members))

\* the members of ev's group, in the order encountered
Members(evs, key) == SelectSeq(evs, LAMBDA e : DedupeKey(e) = key)

\* the representative of a group: the first preferred member if there is one,
\* else the first member; its tickers first, then the rest of the group's
Representative(members, prefer_fred) ==
    LET preferred == SelectSeq(members, LAMBDA e : IsPreferred(e, prefer_fred))
        rep == IF preferred # <<>> THEN Head(preferred) ELSE Head(members)
    IN  [rep EXCEPT !.tickers = GroupTickers(UnionTickers(<<>>, rep.tickers), members)]

RECURSIVE Representatives(_, _, _)
\* one representative per group, groups in the order first encountered
Representatives(rest, evs, prefer_fred) ==
    IF rest = <<>> THEN <<>>
    ELSE LET key == DedupeKey(Head(rest))
             later == SelectSeq(Tail(rest), LAMBDA e : DedupeKey(e) # key)
         IN  <<Representative(Members(evs, key), prefer_fred)>>
                 \o Representatives(later, evs, prefer_fred)

RECURSIVE InsertByInstant(_, _)
\* e put into the sorted list after every event that is not later than it
InsertByInstant(sorted, e) ==
    IF sorted = <<>> THEN <<e>>
    ELSE IF utc_timestamp(Head(sorted)) <= utc_timestamp(e)
         THEN <<Head(sorted)>> \o InsertByInstant(Tail(sorted), e)
         ELSE <<e>> \o sorted

RECURSIVE SortByInstant(_, _)
\* stable sort by ascending UTC instant
SortByInstant(sorted, rest) ==
    IF rest = <<>> THEN sorted
    ELSE SortByInstant(InsertByInstant(sorted, Head(rest)), Tail(rest))

dedupe_events(evs, prefer_fred) ==
    SortByInstant(<<>>, Representatives(evs, evs, prefer_fred))

----------------------------------------------------------------------------
(* metrics.py *)

RECURSIVE SelectSeq2(_, _, _)
\* the bars of s whose timestamp lies in [lo, hi]; order kept
SelectSeq2(s, lo, hi) ==
    IF s = <<>> THEN <<>>
    ELSE LET h == Head(s)
             rest == SelectSeq2(Tail(s), lo, hi)
         IN  IF h.timestamp >= lo /\ h.timestamp <= hi
             THEN <<h>> \o rest ELSE rest

\* _window with the end of the interval left out
_window_halfopen(d, start, end) == SelectSeq2(d, start, end - 1)

\* _window: df.filter(timestamp >= start & timestamp <= end)
_window(d, start, end) == SelectSeq2(d, start, end)

Col(d, name) == [i \in 1..Len(d) |-> d[i][name]]

RECURSIVE Log2(_)
\* ln of a positive power of two, in units of ln 2
Log2(n) == IF n <= 1 THEN 0 ELSE 1 + Log2(n \div 2)

\* pl.col("close").log(): null stays null, ln 0 = -inf, ln of a negative = NaN
LogOf(c) ==
    IF c = Null THEN Null
    ELSE IF c.n = 0 THEN NegInf
    ELSE IF c.n < 0 THEN NaN
    ELSE F(Log2(c.n))

\* a - b on floats that may be infinite or NaN
LogDiff(a, b) ==
    IF a = Null \/ b = Null THEN Null
    ELSE IF a = NaN \/ b = NaN THEN NaN
    ELSE IF a = NegInf THEN (IF b = NegInf THEN NaN ELSE NegInf)
    ELSE IF b = NegInf THEN PosInf
    ELSE FSub(a, b)

\* _returns_expr with the undefined first difference filled with 0
_returns_expr_filled(d) ==
    [i \in 1..Len(d) |->
        IF i = 1 THEN F(0)
        ELSE LogDiff(LogOf(d[i].close), LogOf(d[i - 1].close))]

\* _returns_expr: close.log().diff(); the first difference is null
_returns_expr(d) ==
    [i \in 1..Len(d) |->
        IF i = 1 THEN Null
        ELSE LogDiff(LogOf(d[i].close), LogOf(d[i - 1].close))]

RECURSIVE drop_nulls(_)
drop_nulls(s) ==
    IF s = <<>> THEN <<>>
    ELSE IF Head(s) = Null THEN drop_nulls(Tail(s))
    ELSE <<Head(s)>> \o drop_nulls(Tail(s))

RECURSIVE SumN(_, _)
\* sum over i of (numerator of s[i]) ^ p, for integer-valued s and p in {1, 2}
SumN(s, p) ==
    IF s = <<>> THEN 0
    ELSE (IF p = 1 THEN Head(s).n ELSE Head(s).n * Head(s).n) + SumN(Tail(s), p)

\* numpy std (ddof = 0): the root of the population variance; NaN as soon as
\* one element is infinite or NaN
NumpyStd(clean) ==
    IF \E i \in 1..Len(clean) : ~IsNum(clean[i]) THEN NaN
    ELSE LET n == Len(clean)
         IN  [k |-> "sqrt",
              of |-> Rat(n * SumN(clean, 2) - SumN(clean, 1) * SumN(clean, 1), n * n)]

\* _realized_vol
_realized_vol(log_returns) ==
    IF (\A i \in 1..Len(log_returns) : log_returns[i] = Null) \/ Len(log_returns) = 0
    THEN NaN
    ELSE LET clean == drop_nulls(log_returns)
         IN  IF clean = <<>> THEN NaN ELSE NumpyStd(clean)

\* post_vol - pre_vol on floats: NaN if either is NaN, else the difference
VolSub(a, b) ==
    IF a = NaN \/ b = NaN THEN NaN ELSE [k |-> "diff", a |-> a, b |-> b]

\* (prices / ref_price) - 1, null kept; ref_price # 0
Cumulative(ps, ref) ==
    [i \in 1..Len(ps) |->
        IF ps[i] = Null THEN Null ELSE FSub(FDiv(ps[i], ref), F(1))]

\* val > peak, peak starting at -inf
GtPeak(val, peak) == peak = NegInf \/ FLt(peak, val)

RECURSIVE DrawdownLoop_magnitude(_, _, _)
\* the loop keeping the drawdown as a positive magnitude, peak - val
DrawdownLoop_magnitude(cum, peak, dd) ==
    IF cum = <<>> THEN dd
    ELSE LET val == Head(cum)
         IN  IF val = Null THEN DrawdownLoop_magnitude(Tail(cum), peak, dd)
             ELSE LET peak2 == IF GtPeak(val, peak) THEN val ELSE peak
                      drawdown == FSub(peak2, val)
                      dd2 == IF FLt(dd, drawdown) THEN drawdown ELSE dd
                  IN  DrawdownLoop_magnitude(Tail(cum), peak2, dd2)

RECURSIVE DrawdownLoop(_, _, _)
\* the for loop of _max_drawdown_from over the rest of cumulative
DrawdownLoop(cum, peak, dd) ==
    IF cum = <<>> THEN dd
    ELSE LET val == Head(cum)
         IN  IF val = Null THEN DrawdownLoop(Tail(cum), peak, dd)
             ELSE LET peak2 == IF GtPeak(val, peak) THEN val ELSE peak
                      drawdown == FSub(val, peak2)
                      dd2 == IF FLt(drawdown, dd) THEN drawdown ELSE dd
                  IN  DrawdownLoop(Tail(cum), peak2, dd2)

\* _max_drawdown_from with the running peak started at the reference level 0.0
_max_drawdown_from_peak0(ref, ps) ==
    IF (\A i \in 1..Len(ps) : ps[i] = Null) \/ ~FLt(F(0), ref)
    THEN NaN
    ELSE DrawdownLoop(Cumulative(ps, ref), F(0), F(0))

\* _max_drawdown_from
_max_drawdown_from(ref, ps) ==
    IF (\A i \in 1..Len(ps) : ps[i] = Null) \/ ~FLt(F(0), ref)
    THEN NaN
    ELSE DrawdownLoop(Cumulative(ps, ref), NegInf, F(0))

\* Series.arg_max: the first index of the largest non-null value, None if none
\* arg_max returning the last of the equal maxima
arg_max_last(s) ==
    LET idx == {i \in 1..Len(s) : s[i] # Null}
    IN  IF idx = {} THEN 0
        ELSE CHOOSE i \in idx :
                /\ \A j \in idx : ~FLt(s[i], s[j])
                /\ \A j \in idx : i < j => FLt(s[j], s[i])

arg_max(s) ==
    LET idx == {i \in 1..Len(s) : s[i] # Null}
    IN  IF idx = {} THEN 0
        ELSE CHOOSE i \in idx :
                /\ \A j \in idx : ~FLt(s[i], s[j])
                /\ \A j \in idx : j < i => FLt(s[j], s[i])

MinutesPerHour == 60

\* _reaction_time_minutes taking arg_max of the signed path, without abs()
_reaction_time_minutes_signed(event_ts, ref, timestamps, ps) ==
    IF Len(ps) = 0 \/ ref.n = 0 THEN None
    ELSE LET idx == arg_max(Cumulative(ps, ref))
         IN  IF idx = 0 THEN None
             ELSE F((timestamps[idx] - event_ts) * MinutesPerHour)

\* _reaction_time_minutes
_reaction_time_minutes(event_ts, ref, timestamps, ps) ==
    IF Len(ps) = 0 \/ ref.n = 0 THEN None
    ELSE LET cum == Cumulative(ps, ref)
             abs_cum == [i \in 1..Len(cum) |->
                            IF cum[i] = Null THEN Null ELSE FAbs(cum[i])]
             idx == arg_max(abs_cum)
         IN  IF idx = 0 THEN None
             ELSE F((timestamps[idx] - event_ts) * MinutesPerHour)

EventImpact(asset, ev, pre_return, post_return, pre_vol, post_vol, vol_change, max_drawdown_post, reaction_minutes) ==
    [asset |-> asset, event |-> ev, pre_return |-> pre_return,
     post_return |-> post_return, pre_vol |-> pre_vol, post_vol |-> post_vol,
     vol_change |-> vol_change, max_drawdown_post |-> max_drawdown_post,
     reaction_minutes |-> reaction_minutes]

\* locals of analyze_event
PreDf(d, ev, w) == _window(d, utc_timestamp(ev) - w.pre, utc_timestamp(ev))
PostDf(d, ev, w) == _window(d, utc_timestamp(ev), utc_timestamp(ev) + w.post)

\* the early return filled with zeros instead of NaN
NoDataImpact_zeros(asset, ev) ==
    EventImpact(asset, ev, F(0), F(0), F(0), F(0), F(0), F(0), None)

\* the early return of analyze_event: every metric NaN, no reaction time
NoDataImpact(asset, ev) ==
    EventImpact(asset, ev, NaN, NaN, NaN, NaN, NaN, NaN, None)

\* the reference price read from the first bar of the pre-slice
RefPrice_first(pre) == pre[1].close

\* pre_df.select(pl.col("close").last()).item(); None when that close is null
RefPrice(pre) == pre[Len(pre)].close

\* pre_df.select(pl.col("close").first()).item()
FirstPrice(pre) == pre[1].close

\* post_df.select(pl.col("close").last()).item()
LastPrice(post) == post[Len(post)].close

\* pre_ret = ref_price / first_price - 1 if first_price else nan
PreRet(ref, first_price) ==
    IF Truthy(first_price) THEN FSub(FDiv(ref, first_price), F(1)) ELSE NaN

\* post_ret = last_price / ref_price - 1 if ref_price else nan
PostRet(last_price, ref) ==
    IF Truthy(ref) THEN FSub(FDiv(last_price, ref), F(1)) ELSE NaN

\* analyze_event: [exc |-> "none", value |-> the EventImpact], or the exception
\* float(None) raises when the first or last close it reads is null
analyze_event(asset, d, ev, w) ==
    LET event_ts == utc_timestamp(ev)
        pre == PreDf(d, ev, w)
        post == PostDf(d, ev, w)
    IN  IF Len(pre) = 0 \/ Len(post) = 0
        THEN [exc |-> "none", value |-> NoDataImpact(asset, ev)]
        ELSE LET ref == RefPrice(pre)
                 first_price == FirstPrice(pre)
                 last_price == LastPrice(post)
             IN  IF ref = Null \/ first_price = Null \/ last_price = Null
                 THEN [exc |-> "TypeError"]
                 ELSE LET pre_vol == _realized_vol(_returns_expr(pre))
                          post_vol == _realized_vol(_returns_expr(post))
                      IN  [exc |-> "none",
                           value |-> EventImpact(asset, ev,
                                        PreRet(ref, first_price),
                                        PostRet(last_price, ref),
                                        pre_vol, post_vol, VolSub(post_vol, pre_vol),
                                        _max_drawdown_from(ref, Col(post, "close")),
                                        _reaction_time_minutes(event_ts, ref,
                                            Col(post, "timestamp"), Col(post, "close")))]

\* the dict summarize_impacts appends for one impact
SummaryRow(imp) ==
    [event |-> imp.event.name, category |-> imp.event.category, asset |-> imp.asset,
     pre_return |-> imp.pre_return, post_return |-> imp.post_return,
     pre_vol |-> imp.pre_vol, post_vol |-> imp.post_vol,
     vol_change |-> imp.vol_change, max_drawdown_post |-> imp.max_drawdown_post,
     reaction_minutes |-> imp.reaction_minutes,
     event_time_utc |-> utc_timestamp(imp.event)]

\* pl.DataFrame(rows) for a list of dicts: the columns are the keys the dicts
\* carry, so a list of no dicts gives a frame of no columns
DataFrame(rows) ==
    [columns |-> UNION {DOMAIN rows[i] : i \in 1..Len(rows)}, rows |-> rows]

\* DataFrame.is_empty(): no rows
is_empty(frame) == frame.rows = <<>>

summarize_impacts(imps) == DataFrame([i \in 1..Len(imps) |-> SummaryRow(imps[i])])

----------------------------------------------------------------------------
(* data.py *)

\* what Ticker.history gives for one candidate period
HistoryError == [err |-> TRUE, df |-> <<>>]
HistoryData(d) == [err |-> FALSE, df |-> d]

RECURSIVE HistoryLoop(_, _, _)
\* the loop of fetch_history over candidate_periods: the first non-empty frame
\* ends it, an exception is kept in last_err and the next period is tried
HistoryLoop(outcomes, d, last_err) ==
    IF outcomes = <<>> THEN [df |-> d, last_err |-> last_err]
    ELSE IF Head(outcomes).err THEN HistoryLoop(Tail(outcomes), d, TRUE)
    ELSE IF Head(outcomes).df # <<>> THEN [df |-> Head(outcomes).df, last_err |-> last_err]
    ELSE HistoryLoop(Tail(outcomes), Head(outcomes).df, last_err)

RECURSIVE InsertByTimestamp(_, _)
InsertByTimestamp(sorted, b) ==
    IF sorted = <<>> THEN <<b>>
    ELSE IF Head(sorted).timestamp <= b.timestamp
         THEN <<Head(sorted)>> \o InsertByTimestamp(Tail(sorted), b)
         ELSE <<b>> \o sorted

RECURSIVE SortByTimestamp(_, _)
\* DataFrame.sort("timestamp")
SortByTimestamp(sorted, rest) ==
    IF rest = <<>> THEN sorted
    ELSE SortByTimestamp(InsertByTimestamp(sorted, Head(rest)), Tail(rest))

\* fetch_history: raises the last error when no period gave a frame with rows
\* and one of them failed; an empty frame when none failed; else the rows
\* within [start, end], sorted
fetch_history(outcomes, start, end) ==
    LET r == HistoryLoop(outcomes, <<>>, FALSE)
    IN  IF r.df = <<>>
        THEN IF r.last_err THEN [exc |-> "Exception"]
             ELSE [exc |-> "none", value |-> <<>>]
        ELSE [exc |-> "none",
              value |-> SortByTimestamp(<<>>, SelectSeq2(r.df, start, end))]

RECURSIVE fetch_assets(_, _, _, _)
\* fetch_assets: out[t] = fetch_history(t, ...) for each ticker in turn; an
\* exception of fetch_history leaves the loop and the function
fetch_assets(tickers, src, start, end) ==
    IF tickers = <<>> THEN [exc |-> "none", value |-> <<>>]
    ELSE LET h == fetch_history(src[Head(tickers)], start, end)
         IN  IF h.exc # "none" THEN [exc |-> h.exc]
             ELSE LET rest == fetch_assets(Tail(tickers), src, start, end)
                  IN  IF rest.exc # "none" THEN rest
                      ELSE [exc |-> "none",
                            value |-> (Head(tickers) :> h.value) @@ rest.value]

----------------------------------------------------------------------------
(* cli.py *)

Min(S) == CHOOSE x \in S : \A y \in S : x <= y
Max(S) == CHOOSE x \in S : \A y \in S : y <= x

\* _date_bounds, for a non-empty list of events
_date_bounds(evs, w) ==
    [start |-> Min({utc_timestamp(evs[i]) - w.pre : i \in 1..Len(evs)}),
     end |-> Max({utc_timestamp(evs[i]) + w.post : i \in 1..Len(evs)})]

\* the check for an empty event list left out
NoEvents_never(evs) == FALSE

\* `not events` at line 168
NoEvents(evs) == Len(evs) = 0

RECURSIVE AnalyzeEvents(_, _, _, _)
\* for ev in events: impacts.append(analyze_event(asset, df, ev, window))
AnalyzeEvents(asset, d, evs, w) ==
    IF evs = <<>> THEN [exc |-> "none", value |-> <<>>]
    ELSE LET a == analyze_event(asset, d, Head(evs), w)
         IN  IF a.exc # "none" THEN [exc |-> a.exc]
             ELSE LET rest == AnalyzeEvents(asset, d, Tail(evs), w)
                  IN  IF rest.exc # "none" THEN rest
                      ELSE [exc |-> "none", value |-> <<a.value>> \o rest.value]

RECURSIVE AnalyzeAssets(_, _, _, _)
\* for asset, df in price_map.items(): an empty frame is skipped with a warning
AnalyzeAssets(assets, pm, evs, w) ==
    IF assets = <<>> THEN [exc |-> "none", value |-> <<>>]
    ELSE LET d == pm[Head(assets)]
             here == IF d = <<>> THEN [exc |-> "none", value |-> <<>>]
                     ELSE AnalyzeEvents(Head(assets), d, evs, w)
         IN  IF here.exc # "none" THEN here
             ELSE LET rest == AnalyzeAssets(Tail(assets), pm, evs, w)
                  IN  IF rest.exc # "none" THEN rest
                      ELSE [exc |-> "none", value |-> here.value \o rest.value]

----------------------------------------------------------------------------
(* Input domains *)

\* closes of the analysed series: null, zero, and powers of two
Closes == {Null, F(0), F(1), F(2), F(4)}

RECURSIVE SeriesUpTo(_)
\* every series whose bars carry increasing timestamps within 0..t
SeriesUpTo(t) ==
    IF t < 0 THEN {<<>>}
    ELSE LET shorter == SeriesUpTo(t - 1)
         IN  shorter \cup
             {Append(s, [timestamp |-> t, close |-> c]) : s \in shorter, c \in Closes}

\* event timestamps: UTC-aware, naive and New-York-aware wall times
EventStamps ==
    {[wall |-> 1, tz |-> "utc"], [wall |-> -3, tz |-> "naive"],
     [wall |-> -4, tz |-> "nyc"], [wall |-> MaxT + 3, tz |-> "utc"]}

Windows == {EventWindowConfig(p, q) : p \in -1..MaxPre, q \in -1..MaxPost}

\* closes and reference prices handed to _max_drawdown_from directly
DdCloses == {Null, F(0), F(1), F(2), F(3)}
DdRefs == {F(-1), F(0), F(1), F(2), F(3)}

RECURSIVE SeqsUpTo(_, _)
SeqsUpTo(S, n) ==
    IF n = 0 THEN {<<>>}
    ELSE LET shorter == SeqsUpTo(S, n - 1)
         IN  shorter \cup {Append(s, x) : s \in {t \in shorter : Len(t) = n - 1}, x \in S}

\* the events dedupe_events is applied to
EventPool ==
    {Event("US CPI", "cpi", [wall |-> 13, tz |-> "utc"], <<>>, "static"),
     Event("Consumer Price Index", "CPI", [wall |-> 8, tz |-> "naive"], <<"AAPL">>, "fred"),
     Event("CPI late", "cpi", [wall |-> 20, tz |-> "utc"], <<"MSFT">>, "static"),
     Event("CPI evening", "cpi", [wall |-> 19, tz |-> "naive"], <<"AAPL">>, "file"),
     Event("CPI early", "Cpi", [wall |-> 9, tz |-> "utc"], <<"MSFT", "AAPL">>, "fred"),
     Event("FOMC", "fomc", [wall |-> 13, tz |-> "utc"], <<"AAPL">>, "static"),
     Event("FOMC statement", "fomc", [wall |-> 4, tz |-> "nyc"], <<>>, "file")}

\* the permutations of a list
Shuffles(evs) ==
    LET n == Len(evs)
        bij == {f \in [1..n -> 1..n] : \A i, j \in 1..n : f[i] = f[j] => i = j}
    IN  {[i \in 1..n |-> evs[f[i]]] : f \in bij}

\* rows of an events file: well-formed ones and one whose timestamp does not parse
GoodRow1 ==
    [ok |-> TRUE,
     event |-> Event("Custom CPI", "CPI", [wall |-> -4, tz |-> "naive"], <<"SPY">>, "file")]
GoodRow2 ==
    [ok |-> TRUE,
     event |-> Event("Custom GDP", "gdp", [wall |-> 2, tz |-> "utc"], <<>>, "file")]
BadRow == [ok |-> FALSE, event |-> None]

EventFiles ==
    {[given |-> FALSE, json |-> FALSE, rows |-> <<>>],
     [given |-> TRUE, json |-> TRUE, rows |-> <<GoodRow1>>],
     [given |-> TRUE, json |-> FALSE, rows |-> <<GoodRow1, BadRow, GoodRow2>>],
     [given |-> TRUE, json |-> TRUE, rows |-> <<BadRow, GoodRow2>>],
     [given |-> TRUE, json |-> FALSE, rows |-> <<>>]}

IcsSources ==
    {[given |-> FALSE, fails |-> FALSE, events |-> <<>>],
     [given |-> TRUE, fails |-> TRUE, events |-> <<>>],
     [given |-> TRUE, fails |-> FALSE,
      events |-> <<Event("ICS release", "macro", [wall |-> 1, tz |-> "utc"], <<>>, "ics")>>]}

MainWindows == {EventWindowConfig(1, 1), EventWindowConfig(-1, 2)}

ArgsSet ==
    [categories : {<<>>, <<"CPI", "fomc">>, <<"gdp">>},
     year : {2023, 2025},
     assets : {<<"SPY", "QQQ">>},
     events_file : EventFiles,
     ics : IcsSources,
     fred : BOOLEAN,
     window : MainWindows]

\* a frame as the price source delivers it: rows not yet in time order
SourceFrame ==
    <<[timestamp |-> 2, close |-> F(4)], [timestamp |-> 0, close |-> F(1)],
      [timestamp |-> 1, close |-> F(2)], [timestamp |-> 3, close |-> F(1)],
      [timestamp |-> 9, close |-> Null]>>

\* candidate periods fetch_history tries for one ticker
MaxPeriods == 2

PeriodOutcomes == {HistoryError, HistoryData(<<>>), HistoryData(SourceFrame)}

PriceSources(assets) ==
    [{assets[i] : i \in 1..Len(assets)} -> [1..MaxPeriods -> PeriodOutcomes]]

----------------------------------------------------------------------------
(* analyze_event applied to one series, event and window *)

avars == <<df, event, window, pre_df, post_df, impact>>
dvars == <<ref_price, prices, max_dd>>
mvars == <<STATIC_EVENTS, args, price_source, events, aliased, price_map, impacts,
          results, output>>
uvars == <<shuffled, kept, kept_shuffled, kept_twice>>
vars == <<pc, df, event, window, pre_df, post_df, impact, ref_price, prices, max_dd,
          STATIC_EVENTS, args, price_source, events, aliased, price_map, impacts,
          results, output, shuffled, kept, kept_shuffled, kept_twice>>

IdleAnalyze ==
    /\ df = <<>> /\ event = None /\ window = None
    /\ pre_df = <<>> /\ post_df = <<>> /\ impact = None

IdleDrawdown == ref_price = None /\ prices = <<>> /\ max_dd = None

IdleMain ==
    /\ STATIC_EVENTS = StaticCalendar /\ args = None /\ price_source = <<>>
    /\ events = <<>> /\ aliased = FALSE /\ price_map = <<>>
    /\ impacts = <<>> /\ results = None /\ output = ""

IdleDedupe == shuffled = <<>> /\ kept = <<>> /\ kept_shuffled = <<>> /\ kept_twice = <<>>

InitAnalyze ==
    /\ pc = "call"
    /\ df \in SeriesUpTo(MaxT)
    /\ event \in {Event("ev", "cpi", ts, <<>>, "static") : ts \in EventStamps}
    /\ window \in Windows
    /\ pre_df = <<>> /\ post_df = <<>> /\ impact = None
    /\ IdleDrawdown /\ IdleMain /\ IdleDedupe

\* analyze_event returns an EventImpact
AnalyzeReturns ==
    /\ pc = "call"
    /\ analyze_event("SPY", df, event, window).exc = "none"
    /\ pre_df' = PreDf(df, event, window)
    /\ post_df' = PostDf(df, event, window)
    /\ impact' = analyze_event("SPY", df, event, window).value
    /\ pc' = "returned"
    /\ UNCHANGED <<df, event, window>>
    /\ UNCHANGED <<dvars, mvars, uvars>>

\* analyze_event raises out of float(...)
AnalyzeRaises ==
    /\ pc = "call"
    /\ analyze_event("SPY", df, event, window).exc # "none"
    /\ pre_df' = PreDf(df, event, window)
    /\ post_df' = PostDf(df, event, window)
    /\ impact' = None
    /\ pc' = "raised"
    /\ UNCHANGED <<df, event, window>>
    /\ UNCHANGED <<dvars, mvars, uvars>>

NextAnalyze == AnalyzeReturns \/ AnalyzeRaises

SpecAnalyze == InitAnalyze /\ [][NextAnalyze]_vars

----------------------------------------------------------------------------
(* _max_drawdown_from applied to one reference price and one series *)

InitDrawdown ==
    /\ pc = "call"
    /\ ref_price \in DdRefs
    /\ prices \in SeqsUpTo(DdCloses, MaxLen)
    /\ max_dd = None
    /\ IdleAnalyze /\ IdleMain /\ IdleDedupe

MaxDrawdownFrom ==
    /\ pc = "call"
    /\ max_dd' = _max_drawdown_from(ref_price, prices)
    /\ pc' = "returned"
    /\ UNCHANGED <<ref_price, prices>>
    /\ UNCHANGED <<avars, mvars, uvars>>

NextDrawdown == MaxDrawdownFrom

SpecDrawdown == InitDrawdown /\ [][NextDrawdown]_vars

----------------------------------------------------------------------------
(* dedupe_events applied to a list, to a permutation of it, and to its own output *)

InitDedupe ==
    /\ pc = "call"
    /\ events \in SeqsUpTo(EventPool, MaxEvents)
    /\ shuffled \in Shuffles(events)
    /\ kept = <<>> /\ kept_shuffled = <<>> /\ kept_twice = <<>>
    /\ STATIC_EVENTS = StaticCalendar /\ args = None /\ price_source = <<>>
    /\ aliased = FALSE /\ price_map = <<>> /\ impacts = <<>>
    /\ results = None /\ output = ""
    /\ IdleAnalyze /\ IdleDrawdown

DedupeEvents ==
    /\ pc = "call"
    /\ kept' = dedupe_events(events, TRUE)
    /\ pc' = "deduped"
    /\ UNCHANGED <<shuffled, kept_shuffled, kept_twice>>
    /\ UNCHANGED <<avars, dvars, mvars>>

DedupeShuffled ==
    /\ pc = "deduped"
    /\ kept_shuffled' = dedupe_events(shuffled, TRUE)
    /\ pc' = "both"
    /\ UNCHANGED <<shuffled, kept, kept_twice>>
    /\ UNCHANGED <<avars, dvars, mvars>>

DedupeAgain ==
    /\ pc = "both"
    /\ kept_twice' = dedupe_events(kept, TRUE)
    /\ pc' = "returned"
    /\ UNCHANGED <<shuffled, kept, kept_shuffled>>
    /\ UNCHANGED <<avars, dvars, mvars>>

NextDedupe == DedupeEvents \/ DedupeShuffled \/ DedupeAgain

SpecDedupe == InitDedupe /\ [][NextDedupe]_vars

----------------------------------------------------------------------------
(* cli.py: main *)

Init ==
    /\ pc = "sample"
    /\ args \in ArgsSet
    /\ STATIC_EVENTS = StaticCalendar
    /\ window = None
    /\ price_source = <<>>
    /\ events = <<>> /\ aliased = FALSE
    /\ price_map = <<>> /\ impacts = <<>> /\ results = None /\ output = ""
    /\ df = <<>> /\ event = None
    /\ pre_df = <<>> /\ post_df = <<>> /\ impact = None
    /\ IdleDrawdown /\ IdleDedupe

\* events.extend(more): the list in STATIC_EVENTS grows too when `events` is it
Extend(more) ==
    /\ events' = events \o more
    /\ STATIC_EVENTS' = IF aliased
                         THEN [STATIC_EVENTS EXCEPT ![args.year] = events \o more]
                         ELSE STATIC_EVENTS

\* lines 112-120: the window and the built-in calendar
SampleEvents ==
    /\ pc = "sample"
    /\ window' = args.window
    /\ events' = sample_events(STATIC_EVENTS, args.categories, args.year).list
    /\ aliased' = sample_events(STATIC_EVENTS, args.categories, args.year).alias
    /\ pc' = "events_file"
    /\ UNCHANGED <<STATIC_EVENTS, args, price_source, price_map, impacts, results, output>>
    /\ UNCHANGED <<df, event, pre_df, post_df, impact>>
    /\ UNCHANGED <<dvars, uvars>>

\* lines 121-126: --events-file; an exception of the loader is not caught
LoadEventsFile ==
    /\ pc = "events_file"
    /\ LET f == args.events_file
           loaded == IF f.json THEN load_events_from_json(f.rows)
                     ELSE load_events_from_csv(f.rows)
       IN  IF ~f.given
           THEN pc' = "ics" /\ UNCHANGED <<events, STATIC_EVENTS>>
           ELSE IF loaded.exc # "none"
           THEN pc' = "crashed" /\ UNCHANGED <<events, STATIC_EVENTS>>
           ELSE pc' = "ics" /\ Extend(loaded.value)
    /\ UNCHANGED <<args, price_source, aliased, price_map, impacts, results, output>>
    /\ UNCHANGED <<avars, dvars, uvars>>

\* lines 127-135: --events-ics-url; an exception is logged as a warning
LoadIcs ==
    /\ pc = "ics"
    /\ IF args.ics.given /\ ~args.ics.fails
       THEN Extend(args.ics.events)
       ELSE UNCHANGED <<events, STATIC_EVENTS>>
    /\ pc' = "fred"
    /\ UNCHANGED <<args, price_source, aliased, price_map, impacts, results, output>>
    /\ UNCHANGED <<avars, dvars, uvars>>

\* lines 136-167: --events-fred-release-ids; the call passes time_overrides,
\* which load_events_from_fred does not take: the TypeError is logged as a warning
LoadFred ==
    /\ pc = "fred"
    /\ pc' = "check"
    /\ UNCHANGED <<events, STATIC_EVENTS>>
    /\ UNCHANGED <<args, price_source, aliased, price_map, impacts, results, output>>
    /\ UNCHANGED <<avars, dvars, uvars>>

\* lines 168-169: if not events: raise SystemExit("No events matched categories.")
CheckEvents ==
    /\ pc = "check"
    /\ IF NoEvents(events)
       THEN pc' = "exit" /\ output' = "SystemExit: No events matched categories."
       ELSE pc' = "dedupe" /\ UNCHANGED output
    /\ UNCHANGED <<STATIC_EVENTS, args, price_source, events, aliased, price_map, impacts,
                   results>>
    /\ UNCHANGED <<avars, dvars, uvars>>

\* line 171: events = dedupe_events(events, prefer_fred=True)
Dedupe ==
    /\ pc = "dedupe"
    /\ events' = dedupe_events(events, TRUE)
    /\ aliased' = FALSE
    /\ pc' = "fetch"
    /\ UNCHANGED <<STATIC_EVENTS, args, price_source, price_map, impacts, results, output>>
    /\ UNCHANGED <<avars, dvars, uvars>>

\* lines 173-181: _date_bounds (min() of no events raises) and fetch_assets,
\* whose exception is not caught
FetchAssets ==
    /\ pc = "fetch"
    /\ IF events = <<>>
       THEN pc' = "crashed" /\ UNCHANGED <<price_source, price_map>>
       ELSE \E src \in PriceSources(args.assets) :
               LET b == _date_bounds(events, window)
                   got == fetch_assets(args.assets, src, b.start, b.end)
               IN  /\ price_source' = src
                   /\ IF got.exc # "none"
                      THEN pc' = "crashed" /\ UNCHANGED price_map
                      ELSE pc' = "analyze" /\ price_map' = got.value
    /\ UNCHANGED <<STATIC_EVENTS, args, events, aliased, impacts, results, output>>
    /\ UNCHANGED <<avars, dvars, uvars>>

\* lines 183-191: the loop over price_map; an exception of analyze_event is
\* not caught
AnalyzeAll ==
    /\ pc = "analyze"
    /\ LET r == AnalyzeAssets(args.assets, price_map, events, window)
       IN  IF r.exc # "none"
           THEN pc' = "crashed" /\ UNCHANGED impacts
           ELSE pc' = "report" /\ impacts' = r.value
    /\ UNCHANGED <<STATIC_EVENTS, args, price_source, events, aliased, price_map, results,
                   output>>
    /\ UNCHANGED <<avars, dvars, uvars>>

\* lines 193-238: results = summarize_impacts(impacts); "No impacts computed."
\* when results.is_empty(), else the ranked table
Report ==
    /\ pc = "report"
    /\ results' = summarize_impacts(impacts)
    /\ output' = IF is_empty(summarize_impacts(impacts))
                 THEN "No impacts computed." ELSE "table"
    /\ pc' = "done"
    /\ UNCHANGED <<STATIC_EVENTS, args, price_source, events, aliased, price_map, impacts>>
    /\ UNCHANGED <<avars, dvars, uvars>>

Next ==
    \/ SampleEvents \/ LoadEventsFile \/ LoadIcs \/ LoadFred \/ CheckEvents
    \/ Dedupe \/ FetchAssets \/ AnalyzeAll \/ Report

Spec == Init /\ [][Next]_vars

----------------------------------------------------------------------------
(* Claims about analyze_event and its helpers *)

BothSlices == Len(pre_df) > 0 /\ Len(post_df) > 0

AllNaN(imp) ==
    /\ imp.pre_return = NaN /\ imp.post_return = NaN
    /\ imp.pre_vol = NaN /\ imp.post_vol = NaN
    /\ imp.vol_change = NaN /\ imp.max_drawdown_post = NaN

\* C1: whenever the pre-slice or the post-slice holds no bar (an empty series
\* included), analyze_event does not raise and returns an EventImpact whose six
\* numeric fields are NaN and whose reaction_minutes is None.
C1_EmptySliceAllNaN ==
    (pc # "call" /\ (Len(pre_df) = 0 \/ Len(post_df) = 0)) =>
        /\ pc = "returned"
        /\ AllNaN(impact)
        /\ impact.reaction_minutes = None

C1_Witness ==
    /\ pc = "returned" /\ Len(df) > 0
    /\ Len(pre_df) > 0 /\ Len(post_df) = 0
    /\ AllNaN(impact)

C1_WitnessEmptySeries == pc = "returned" /\ df = <<>> /\ impact.reaction_minutes = None

\* the bars of d whose timestamp lies in the closed interval [lo, hi]
BarsIn(d, lo, hi) ==
    {d[i] : i \in {j \in 1..Len(d) : lo <= d[j].timestamp /\ d[j].timestamp <= hi}}

Range(s) == {s[i] : i \in 1..Len(s)}

\* C3: the pre-slice is exactly the bars with instant - pre <= timestamp <=
\* instant, the post-slice exactly those with instant <= timestamp <= instant +
\* post; a bar at the event instant is in both, no other bar is in either.
C3_SlicesAreClosedIntervals ==
    pc # "call" =>
        LET ts == utc_timestamp(event)
        IN  /\ Range(pre_df) = BarsIn(df, ts - window.pre, ts)
            /\ Range(post_df) = BarsIn(df, ts, ts + window.post)
            /\ Len(pre_df) = Cardinality(Range(pre_df))
            /\ Len(post_df) = Cardinality(Range(post_df))
            /\ \A i \in 1..Len(df) :
                  (df[i].timestamp = ts /\ window.pre >= 0 /\ window.post >= 0) =>
                      (df[i] \in Range(pre_df) /\ df[i] \in Range(post_df))

C3_Witness ==
    /\ pc # "call"
    /\ \E i \in 1..Len(df) :
          /\ df[i].timestamp = utc_timestamp(event)
          /\ df[i] \in Range(pre_df) /\ df[i] \in Range(post_df)
    /\ \E i \in 1..Len(df) : df[i] \notin Range(pre_df) /\ df[i] \notin Range(post_df)
    /\ \E i \in 1..Len(df) : df[i].timestamp = utc_timestamp(event) - window.pre
                               /\ window.pre > 0 /\ df[i] \in Range(pre_df)
    /\ \E i \in 1..Len(df) : df[i].timestamp = utc_timestamp(event) + window.post
                               /\ window.post > 0 /\ df[i] \in Range(post_df)

\* positions of post_df with a close, and |close - ref| there (closes are whole)
Priced(d) == {i \in 1..Len(d) : d[i].close # Null}
Deviation(d, i, ref) == Abs(d[i].close.n * ref.d - ref.n * d[i].close.d)

\* C5: with both slices non-empty and ref_price # 0, reaction_minutes is the
\* offset in minutes from the event instant to a post-slice bar whose
\* |close/ref_price - 1| is maximal; with ref_price = 0, or an empty post-slice,
\* it is None.
C5_ReactionAtMaxAbsDeviation ==
    pc = "returned" =>
        IF ~BothSlices THEN impact.reaction_minutes = None
        ELSE LET ref == pre_df[Len(pre_df)].close
             IN  IF ref.n = 0 THEN impact.reaction_minutes = None
                 ELSE \E i \in Priced(post_df) :
                        /\ \A j \in Priced(post_df) :
                              Deviation(post_df, j, ref) <= Deviation(post_df, i, ref)
                        /\ impact.reaction_minutes =
                              [k |-> "num",
                               n |-> (post_df[i].timestamp - utc_timestamp(event)) * 60,
                               d |-> 1]

C5_Witness ==
    /\ pc = "returned" /\ BothSlices
    /\ pre_df[Len(pre_df)].close.n = 4
    /\ impact.reaction_minutes = [k |-> "num", n |-> 120, d |-> 1]
    /\ post_df[Len(post_df)].close.n = 0
    /\ \E i \in Priced(post_df) : post_df[i].close.n = 4

C5_WitnessZeroRef ==
    /\ pc = "returned" /\ BothSlices
    /\ pre_df[Len(pre_df)].close.n = 0
    /\ impact.reaction_minutes = None

\* x = a / b - 1 as floats, for whole a and b # 0
IsRatioMinusOne(x, a, b) == IsNum(x) /\ x.n * b = (a - b) * x.d

\* C6: with both slices non-empty, ref_price is the last pre-slice close,
\* first_price the first pre-slice close, last_price the last post-slice close;
\* pre_return = ref_price/first_price - 1, NaN exactly when first_price = 0, and
\* post_return = last_price/ref_price - 1, NaN exactly when ref_price = 0.
C6_Returns ==
    (pc = "returned" /\ BothSlices) =>
        LET ref == pre_df[Len(pre_df)].close.n
            first_price == pre_df[1].close.n
            last_price == post_df[Len(post_df)].close.n
        IN  /\ (impact.pre_return = NaN) <=> (first_price = 0)
            /\ first_price # 0 => IsRatioMinusOne(impact.pre_return, ref, first_price)
            /\ (impact.post_return = NaN) <=> (ref = 0)
            /\ ref # 0 => IsRatioMinusOne(impact.post_return, last_price, ref)

C6_Witness ==
    /\ pc = "returned" /\ BothSlices /\ Len(pre_df) >= 2 /\ Len(post_df) >= 2
    /\ pre_df[1].close.n = 4 /\ pre_df[Len(pre_df)].close.n = 2
    /\ post_df[Len(post_df)].close.n = 1
    /\ impact.pre_return = [k |-> "num", n |-> -1, d |-> 2]
    /\ impact.post_return = [k |-> "num", n |-> -1, d |-> 2]

C6_WitnessZeroFirst ==
    /\ pc = "returned" /\ BothSlices
    /\ pre_df[1].close.n = 0 /\ pre_df[Len(pre_df)].close.n # 0
    /\ impact.pre_return = NaN /\ impact.post_return # NaN

\* adjacent positions of a slice that both carry a close: the non-null differences
ValidDiffs(d) == {i \in 2..Len(d) : d[i].close # Null /\ d[i - 1].close # Null}

\* a non-null difference that is not finite: one of its closes is <= 0
NonFiniteDiffs(d) ==
    {i \in ValidDiffs(d) : d[i].close.n <= 0 \/ d[i - 1].close.n <= 0}

VolChangeOk(imp) ==
    /\ (imp.vol_change = NaN) <=> (imp.pre_vol = NaN \/ imp.post_vol = NaN)
    /\ imp.vol_change # NaN =>
          imp.vol_change = [k |-> "diff", a |-> imp.post_vol, b |-> imp.pre_vol]

\* C7 as stated: the volatility of a slice is NaN when the slice has no non-null
\* log-return difference and a defined number otherwise; vol_change is post_vol -
\* pre_vol, NaN whenever either is NaN.
C7_Original ==
    (pc = "returned" /\ BothSlices) =>
        /\ (impact.pre_vol = NaN) <=> (ValidDiffs(pre_df) = {})
        /\ (impact.post_vol = NaN) <=> (ValidDiffs(post_df) = {})
        /\ VolChangeOk(impact)

\* C7 amended: the volatility of a slice is NaN when the slice has no non-null
\* log-return difference or when one of its non-null differences is not finite
\* (a close of the pair is zero or negative), and a defined number, the root of a
\* non-negative variance, otherwise; vol_change is post_vol - pre_vol, NaN
\* whenever either is NaN.
C7_VolNaNOrDefined ==
    (pc = "returned" /\ BothSlices) =>
        /\ (impact.pre_vol = NaN) <=>
              (ValidDiffs(pre_df) = {} \/ NonFiniteDiffs(pre_df) # {})
        /\ (impact.post_vol = NaN) <=>
              (ValidDiffs(post_df) = {} \/ NonFiniteDiffs(post_df) # {})
        /\ impact.pre_vol # NaN => (impact.pre_vol.k = "sqrt" /\ impact.pre_vol.of.n >= 0)
        /\ impact.post_vol # NaN => (impact.post_vol.k = "sqrt" /\ impact.post_vol.of.n >= 0)
        /\ VolChangeOk(impact)

C7_Witness ==
    /\ pc = "returned" /\ Len(pre_df) = 1 /\ Len(post_df) = 3
    /\ impact.pre_vol = NaN
    /\ impact.post_vol.k = "sqrt" /\ impact.post_vol.of.n > 0
    /\ impact.vol_change = NaN

C7_WitnessDefined ==
    /\ pc = "returned" /\ BothSlices
    /\ impact.pre_vol # NaN /\ impact.post_vol # NaN
    /\ impact.vol_change = [k |-> "diff", a |-> impact.post_vol, b |-> impact.pre_vol]
    /\ impact.post_vol # impact.pre_vol

----------------------------------------------------------------------------
(* Claims about _max_drawdown_from *)

AllNull(ps) == \A i \in 1..Len(ps) : ps[i] = Null

\* x <= 0 as Python evaluates it: False for NaN
LeZero(x) == IsNum(x) /\ x.n <= 0

\* C2 as stated: for every ref_price > 0 and every series of closes, of any
\* length, the returned value is <= 0.
C2_Original ==
    (pc = "returned" /\ ref_price.n > 0) => LeZero(max_dd)

\* C2 amended: for every ref_price > 0 and every series of closes that holds at
\* least one non-null close the returned value is <= 0; for a series with no
\* non-null close (the empty series included) it is NaN.
C2_DrawdownNonPositive ==
    (pc = "returned" /\ ref_price.n > 0) =>
        IF AllNull(prices) THEN max_dd = NaN ELSE LeZero(max_dd)

C2_Witness ==
    /\ pc = "returned" /\ ref_price.n = 2 /\ Len(prices) = MaxLen
    /\ ~AllNull(prices) /\ IsNum(max_dd) /\ max_dd.n < 0

\* the running peak of the closes up to position i (closes are whole numbers)
PeakUpTo(ps, i) ==
    CHOOSE m \in {ps[j].n : j \in {h \in 1..i : ps[h] # Null}} :
        \A j \in {h \in 1..i : ps[h] # Null} : ps[j].n <= m

\* C4: for ref_price > 0 and a series with a non-null close, the result is the
\* minimum over the positions i of c_i - max_{j <= i} c_j, c_k = close_k/ref_price
\* - 1, exactly 0.0 when the path never falls below its running peak; it is NaN
\* when ref_price <= 0 or every close is null.
C4_DrawdownIsMinBelowRunningPeak ==
    pc = "returned" =>
        IF ref_price.n <= 0 \/ AllNull(prices) THEN max_dd = NaN
        ELSE LET pos == {i \in 1..Len(prices) : prices[i] # Null}
                 \* (c_i - peak_i) * ref_price
                 gap(i) == prices[i].n - PeakUpTo(prices, i)
             IN  /\ IsNum(max_dd)
                 /\ \E i \in pos : max_dd.n * ref_price.n = gap(i) * max_dd.d
                 /\ \A i \in pos : max_dd.n * ref_price.n <= gap(i) * max_dd.d
                 /\ (\A i \in pos : gap(i) = 0) => max_dd = [k |-> "num", n |-> 0, d |-> 1]

C4_Witness ==
    /\ pc = "returned" /\ ref_price.n = 1
    /\ prices = <<F(1), F(3), Null, F(0)>>
    /\ max_dd = [k |-> "num", n |-> -3, d |-> 1]

C4_WitnessNaN == pc = "returned" /\ ref_price.n = -1 /\ ~AllNull(prices) /\ max_dd = NaN

----------------------------------------------------------------------------
(* Claims about dedupe_events *)

RepId(e) == <<e.source, utc_timestamp(e)>>
RepIds(l) == {RepId(l[i]) : i \in 1..Len(l)}
Keys(l) == {DedupeKey(l[i]) : i \in 1..Len(l)}

\* the members of a group a representative is chosen among: those from the
\* preferred source if there are any, else all of them
Candidates(l, key) ==
    LET members == {l[i] : i \in {j \in 1..Len(l) : DedupeKey(l[j]) = key}}
        preferred == {e \in members : e.source = "fred"}
    IN  IF preferred # {} THEN preferred ELSE members

----------------------------------------------------------------------------
(* Claims about main *)

BeforeCheck == {"sample", "events_file", "ics", "fred", "check"}
PastCheck == {"dedupe", "fetch", "analyze", "report", "done"}

\* C10: when the event list is empty after the category filter and the loading
\* of every supplemental source, the run ends in SystemExit("No events matched
\* categories.") before dedupe, price fetch, analysis or report; with an empty
\* list it never reaches those steps and never prints the empty report.
C10_EmptyEventListFails ==
    /\ pc \in PastCheck => events # <<>>
    /\ pc = "exit" =>
          /\ events = <<>>
          /\ output = "SystemExit: No events matched categories."
    /\ (events = <<>> /\ pc \notin BeforeCheck) =>
          /\ pc \in {"exit", "crashed"}
          /\ price_source = <<>> /\ price_map = <<>> /\ impacts = <<>>
          /\ output \notin {"No impacts computed.", "table"}

C10_Witness ==
    /\ pc = "exit" /\ events = <<>>
    /\ args.categories = <<"gdp">> /\ args.year = 2025
    /\ args.events_file.given /\ args.ics.given
    /\ output = "SystemExit: No events matched categories."

\* the steps of main that follow the call of fetch_assets returning
PastFetch == {"analyze", "report", "done"}

\* C11: a window configuration with a negative pre or post duration is rejected
\* before any price fetch or analyze_event call: no run calls fetch_assets, and
\* none reaches the analysis loop or the report, with pre < 0 or post < 0.
C11_NegativeWindowRejected ==
    (pc \in PastFetch \/ price_source # <<>>) =>
        (window.pre >= 0 /\ window.post >= 0)

----------------------------------------------------------------------------
(* Claims about summarize_impacts *)

\* the column set of the summary table
SummaryColumns ==
    {"event", "category", "asset", "pre_return", "post_return", "pre_vol",
     "post_vol", "vol_change", "max_drawdown_post", "reaction_minutes",
     "event_time_utc"}

\* C12: summarize_impacts applied to an empty list of impacts returns a table
\* of zero rows that carries the full column set, the same columns as for a
\* non-empty list.
C12_EmptySummaryHasAllColumns ==
    pc = "done" =>
        /\ results.columns = SummaryColumns
        /\ impacts = <<>> => results.rows = <<>>

\* the part of C12 the code keeps: a non-empty list gives one row per impact
\* under the full column set
C12_NonEmptySummary ==
    (pc = "done" /\ impacts # <<>>) =>
        /\ results.columns = SummaryColumns
        /\ Len(results.rows) = Len(impacts)

----------------------------------------------------------------------------
(* Claims about the price fetch of main *)

\* what fetch_history gives for one ticker over the date bounds of the run
Fetched(asset) ==
    LET b == _date_bounds(events, window)
    IN  fetch_history(price_source[asset], b.start, b.end)

\* the price source has usable data for the ticker
HasData(asset) == Fetched(asset).exc = "none" /\ Fetched(asset).value # <<>>

\* every candidate period of the ticker fails or is empty, and one fails
FetchFails(asset) == Fetched(asset).exc # "none"

Assets == {args.assets[i] : i \in 1..Len(args.assets)}

\* the asset is analyzed against every event of the run
AnalyzedAgainstEveryEvent(asset) ==
    \A j \in 1..Len(events) :
        \E k \in 1..Len(impacts) :
            impacts[k].asset = asset /\ impacts[k].event = events[j]

\* C13: a ticker without usable data (an empty result, or a failure on every
\* candidate period) is no error of the run: when fetch_assets is called and
\* some requested asset has data, it returns a frame for every ticker, and
\* every requested asset that has data is analyzed against every event.
C13_BatchContinues ==
    (price_source # <<>> /\ \E a \in Assets : HasData(a)) =>
        /\ price_map # <<>>
        /\ pc \in {"report", "done"} =>
              \A a \in Assets : HasData(a) => AnalyzedAgainstEveryEvent(a)

\* the part of C13 the code keeps: when no ticker fails, a ticker with an empty
\* result is skipped and the assets that have data are analyzed
C13_EmptyResultContinues ==
    (price_source # <<>> /\ \A a \in Assets : ~FetchFails(a)) =>
        /\ pc # "crashed"
        /\ pc \in {"report", "done"} =>
              \A a \in Assets : HasData(a) => AnalyzedAgainstEveryEvent(a)

\* a run in which one ticker has an empty result and the other one is analyzed
C13_EmptyResultReached ==
    /\ pc = "done" /\ impacts # <<>>
    /\ \E a \in Assets : ~HasData(a) /\ ~FetchFails(a)

----------------------------------------------------------------------------
(* Claims about the event loaders *)

\* the steps of main between the loading of the events file and dedupe_events
FileLoaded == {"ics", "fred", "check"}

\* the well-formed records of the events file
GoodRows ==
    {args.events_file.rows[i].event :
        i \in {k \in 1..Len(args.events_file.rows) : args.events_file.rows[k].ok}}

Listed(ev) == \E j \in 1..Len(events) : events[j] = ev

\* C14: when the CSV or JSON loader reads a file in which one record has a
\* malformed timestamp, the failure stays with that record: the run is not
\* ended by the loader (a run that has not called fetch_assets has not
\* crashed), and the well-formed records before and after the bad one are in
\* the event list.
C14_BadRowIsLocalized ==
    args.events_file.given =>
        /\ (pc = "crashed" => price_source # <<>>)
        /\ (pc \in FileLoaded => \A ev \in GoodRows : Listed(ev))

\* the part of C14 the code keeps: a file of well-formed records only is
\* loaded whole
C14_WellFormedFileLoaded ==
    (/\ args.events_file.given
     /\ \A i \in 1..Len(args.events_file.rows) : args.events_file.rows[i].ok) =>
        /\ (pc = "crashed" => price_source # <<>>)
        /\ (pc \in FileLoaded => \A ev \in GoodRows : Listed(ev))

----------------------------------------------------------------------------
(* Claims about the range of reaction_minutes *)

\* the post-slice bars whose absolute deviation from ref_price is maximal
MaxDeviationBars(d, ref) ==
    {i \in Priced(d) : \A j \in Priced(d) : Deviation(d, j, ref) <= Deviation(d, i, ref)}

\* the offset of bar i of the post-slice from the event instant, in minutes
OffsetMinutes(i) == (post_df[i].timestamp - utc_timestamp(event)) * 60

\* C15: for a window with non-negative pre and post, a reaction_minutes that is
\* not None satisfies 0 <= reaction_minutes <= post in minutes, and it is the
\* offset of the earliest of the post-slice bars that tie for the maximal
\* absolute deviation.
C15_ReactionWithinPostEarliestTie ==
    (/\ pc = "returned" /\ window.pre >= 0 /\ window.post >= 0
     /\ impact.reaction_minutes # None) =>
        /\ impact.reaction_minutes.k = "num" /\ impact.reaction_minutes.d = 1
        /\ 0 <= impact.reaction_minutes.n
        /\ impact.reaction_minutes.n <= window.post * 60
        /\ LET ref == pre_df[Len(pre_df)].close
               best == MaxDeviationBars(post_df, ref)
           IN  \E i \in best :
                  /\ \A j \in best : i <= j
                  /\ \A j \in best : post_df[i].timestamp <= post_df[j].timestamp
                  /\ impact.reaction_minutes.n = OffsetMinutes(i)

\* two bars of the post-slice tie for the maximal deviation, the earlier one
\* after the event instant, and the reaction time is the earlier one's
C15_Witness ==
    /\ pc = "returned" /\ window.pre >= 0 /\ window.post = MaxPost
    /\ impact.reaction_minutes # None
    /\ Len(pre_df) > 0 /\ Len(post_df) > 0
    /\ LET ref == pre_df[Len(pre_df)].close
           best == MaxDeviationBars(post_df, ref)
       IN  /\ ref # Null /\ ref.n # 0
           /\ \E i, j \in best :
                  /\ i < j
                  /\ post_df[i].close # post_df[j].close
                  /\ OffsetMinutes(i) = 60
                  /\ impact.reaction_minutes = [k |-> "num", n |-> 60, d |-> 1]

\* the reaction time sits on the closing edge of the post-slice
C15_WitnessAtPost ==
    /\ pc = "returned" /\ window.pre >= 0 /\ window.post = MaxPost
    /\ impact.reaction_minutes = [k |-> "num", n |-> MaxPost * 60, d |-> 1]

----------------------------------------------------------------------------
(* Claims about the built-in calendar *)

\* what sample_events returns for the arguments of the run, given the calendar
Sampled(static) == sample_events(static, args.categories, args.year).list

\* C16: loading events never changes the built-in calendar: at every point of
\* a run STATIC_EVENTS is what it was at import, and a later call of
\* sample_events with the arguments of the run returns the events the first
\* call returned before main extended its list.
C16_StaticEventsUnchanged ==
    /\ STATIC_EVENTS = StaticCalendar
    /\ Sampled(STATIC_EVENTS) = Sampled(StaticCalendar)

\* the part of C16 the code keeps: with a non-empty categories argument, or a
\* year the calendar does not hold, the list main extends is a new one
C16_FilteredListIsACopy ==
    (Len(args.categories) > 0 \/ args.year \notin DOMAIN StaticCalendar) =>
        /\ STATIC_EVENTS = StaticCalendar
        /\ Sampled(STATIC_EVENTS) = Sampled(StaticCalendar)

====
